---- MODULE Spec2Model ----
(***************************************************************************)
(* walkman: concurrent file system traversal on top of filepath.WalkDir.   *)
(* One Walkman value is built by New(options...), then Walk(dir) runs the  *)
(* collector goroutine, the root searchTree in the caller's goroutine and  *)
(* one goroutine per sub directory and per regular non-empty file.         *)
(***************************************************************************)
EXTENDS Integers, Sequences, FiniteSets, TLC

\* ---------------------------------------------------------------- bounds

\* runtime.GOMAXPROCS(0) of the machine the walk runs on
GoMaxProcs == 1

\* the largest group of a results value handed to Filter and ToSlice
MaxGroup == 2

\* the largest argument handed to WithWorkers in the explored walks (0 and 1
\* are explored as well)
MaxWorkersArg == 3

\* ---------------------------------------------------------------- errors

\* error values: nil, the sentinels, and the *fs.PathError values that
\* os.Lstat, os.ReadDir, os.Stat and os.Open return
NilErr == "nil"
ErrNotExist == "os.ErrNotExist"
SkipDir == "filepath.SkipDir"
PathENOENT == "PathError{ENOENT}"
PathEACCES == "PathError{EACCES}"

\* ---------------------------------------------------------------- names

\* A file name is a sequence of tokens; a leading "." token is the dot of a
\* hidden name.
HasPrefixDot(name) == Len(name) >= 1 /\ name[1] = "."

dirs_to_skip ==
    << <<"AndroidStudioProjects">>, <<"Android">>, <<"NetBeansProjects">>,
       <<"node_modules">>, <<"Qt">>, <<"VirtualBoxVMs">>, <<"vmime">>,
       <<"venv">>, <<"env">>, <<"RUST">>, <<"nltk_data">>, <<"qt5">>,
       <<"qt6">>, <<"wasm32-unknown-unknown">> >>

slice_contains(s, v) == \E i \in 1..Len(s) : s[i] = v

\* ---------------------------------------------------------------- trees

\* A tree is a function from node ids to the node's record; parent 0 marks
\* the traversal root.  kind is the lstat mode class, present says whether
\* the node exists when the walk starts, readable whether it can be opened
\* (a directory: listed), volatile whether it may be removed mid-walk.
Node(name, parent, kind, size, content, present, readable, volatile) ==
    [name |-> name, parent |-> parent, kind |-> kind, size |-> size,
     content |-> content, present |-> present, readable |-> readable,
     volatile |-> volatile]

Dir(name, parent) == Node(name, parent, "dir", 0, "", TRUE, TRUE, FALSE)
File(name, parent, size, content) ==
    Node(name, parent, "file", size, content, TRUE, TRUE, FALSE)

\* fan-out above the default gate, pruned directories, an empty file, a
\* symlink and a file that may vanish
TreeWide ==
    << Dir(<<"home">>, 0),
       Dir(<<".", "git">>, 1),
       File(<<"cfg">>, 2, 1, "x"),
       File(<<"a">>, 1, 2, "hi"),
       [File(<<"b">>, 1, 2, "hi") EXCEPT !.volatile = TRUE],
       File(<<"empty">>, 1, 0, ""),
       Node(<<"link">>, 1, "symlink", 4, "", TRUE, TRUE, FALSE),
       Dir(<<"node_modules">>, 1),
       File(<<"pkg">>, 8, 1, "x"),
       Dir(<<"sub">>, 1),
       File(<<"a">>, 10, 2, "yo") >>

\* a sub directory that cannot be listed, two levels down, and a file that
\* cannot be opened
TreeDeny ==
    << Dir(<<"srv">>, 0),
       Dir(<<"mid">>, 1),
       [Dir(<<"deep">>, 2) EXCEPT !.readable = FALSE],
       File(<<"in">>, 3, 1, "x"),
       [File(<<"secret">>, 2, 3, "s") EXCEPT !.readable = FALSE] >>

\* directories the skip list names, and a hidden one below a plain one
TreeSkip ==
    << Dir(<<"proj">>, 0),
       Dir(<<"node_modules">>, 1),
       File(<<"pkg">>, 2, 1, "x"),
       Dir(<<"src">>, 1),
       Dir(<<".", "cache">>, 4),
       File(<<"obj">>, 5, 1, "x"),
       File(<<"main">>, 4, 2, "m") >>

\* a root that cannot be listed
TreeRootDeny ==
    << [Dir(<<"root">>, 0) EXCEPT !.readable = FALSE],
       File(<<"a">>, 1, 1, "x") >>

\* a root that does not exist
TreeRootMissing ==
    << [Dir(<<"gone">>, 0) EXCEPT !.present = FALSE] >>

\* a hidden root
TreeHiddenRoot ==
    << Dir(<<".", "config">>, 0),
       File(<<"rc">>, 1, 1, "x"),
       Dir(<<"sub">>, 1),
       File(<<"rc">>, 3, 1, "x") >>

\* a root whose own name is on the default skip list
TreeSkipRoot ==
    << Dir(<<"node_modules">>, 0),
       File(<<"pkg">>, 1, 1, "x"),
       Dir(<<"lib">>, 1),
       File(<<"pkg">>, 3, 1, "x") >>

\* a sub directory that holds a file another process removes, followed by
\* a directory
TreeVanish ==
    << Dir(<<"top">>, 0),
       Dir(<<"sub">>, 1),
       [File(<<"tmp">>, 2, 1, "x") EXCEPT !.volatile = TRUE],
       Dir(<<"zdir">>, 2),
       File(<<"f">>, 4, 1, "x") >>

SmallTrees ==
    {TreeRootDeny, TreeRootMissing, TreeHiddenRoot, TreeSkip, TreeSkipRoot}

\* the node that Walk's dir argument names
RootNode == 1

\* ---------------------------------------------------------------- options

Verbose == [op |-> "Verbose", n |-> 0, dirs |-> <<>>, f |-> ""]
SkipDirs(dirs) == [op |-> "SkipDirs", n |-> 0, dirs |-> dirs, f |-> ""]
WithWorkers(n) == [op |-> "WithWorkers", n |-> n, dirs |-> <<>>, f |-> ""]
WithHasher(hashFunc) ==
    [op |-> "WithHasher", n |-> 0, dirs |-> <<>>, f |-> hashFunc]
NoDefaultSkip == [op |-> "NoDefaultSkip", n |-> 0, dirs |-> <<>>, f |-> ""]

\* the Walkman value before any option ran: the gate is made here, with
\* the default worker count as its capacity
NewDefault ==
    LET workers == 2 * GoMaxProcs
    IN  [workers |-> workers, limitsCap |-> workers, hashFunc |-> "nameHasher",
         verbose |-> FALSE, skip |-> dirs_to_skip, noDefaultSkip |-> FALSE]

ApplyOption(w, o) ==
    CASE o.op = "Verbose" -> [w EXCEPT !.verbose = TRUE]
      [] o.op = "SkipDirs" -> [w EXCEPT !.skip = w.skip \o o.dirs]
      [] o.op = "WithWorkers" -> [w EXCEPT !.workers = o.n]
      [] o.op = "WithHasher" -> [w EXCEPT !.hashFunc = o.f]
      [] o.op = "NoDefaultSkip" ->
             [w EXCEPT !.noDefaultSkip = TRUE,
                       !.skip = SelectSeq(w.skip,
                                    LAMBDA f : ~slice_contains(dirs_to_skip, f))]

RECURSIVE ApplyOptions(_, _)
ApplyOptions(w, options) ==
    IF options = <<>> THEN w
    ELSE ApplyOptions(ApplyOption(w, Head(options)), Tail(options))

New(options) == ApplyOptions(NewDefault, options)

\* the walks explored: a tree and the options handed to New
Scenarios ==
    ({TreeWide} \X ({ <<>>, <<WithHasher("md5ContentHasher")>>,
                       <<SkipDirs(<< <<"sub">> >>)>> }
                     \cup { <<WithWorkers(n)>> : n \in {0, 1, MaxWorkersArg} }))
    \cup ({TreeDeny} \X { <<>>, <<WithHasher("md5ContentHasher")>> })
    \cup (SmallTrees \X { <<>>, <<Verbose>>, <<NoDefaultSkip>>,
                          <<WithWorkers(0)>> })
    \cup ({TreeSkip} \X { <<NoDefaultSkip, SkipDirs(<< <<"node_modules">> >>)>>,
                           <<SkipDirs(<< <<"node_modules">> >>), NoDefaultSkip>> })
    \cup ({TreeVanish} \X { <<>> })

\* ---------------------------------------------------------------- state

VARIABLES
    view,        \* a results value and a call of Filter or ToSlice on it
    tree,        \* the directory tree under the root (fixed by Init)
    wm,          \* the Walkman value New returned
    exists,      \* the nodes present in the file system now
    limits,      \* number of values in the gate channel wm.limits
    wgCount,     \* the WaitGroup counter
    pairsClosed, \* whether close(wm.pairs) ran
    pc,          \* per node: where the task spawned for it stands
    frames,      \* per searchTree task: the entries walkDir has yet to visit
    ret,         \* per searchTree task: the error filepath.WalkDir returned
    held,        \* per processFile task: the pair the hash function returned
    aggPc,       \* collectHashes: where it stands
    aggCur,      \* collectHashes: the pair just received
    hashes,      \* collectHashes: the results map being built
    walkPc,      \* Walk: where it stands
    walkErr,     \* Walk: the error of the root searchTree, then the one returned
    walkResult,  \* Walk: the results value returned
    exited,      \* log.Fatal or a panic ended the process
    stdout,      \* the lines verbose mode printed
    history      \* observations of the run that the claims refer to

vars == <<view, tree, wm, exists, limits, wgCount, pairsClosed, pc, frames, ret,
          held, aggPc, aggCur, hashes, walkPc, walkErr, walkResult, exited,
          stdout, history>>

\* ---------------------------------------------------------------- paths

RECURSIVE Path(_)
Path(n) ==
    IF tree[n].parent = 0 THEN <<tree[n].name>>
    ELSE Append(Path(tree[n].parent), tree[n].name)

\* filepath.Base
Base(path) == path[Len(path)]

\* ---------------------------------------------------------------- file system

Lstat(n) == IF n \in exists THEN NilErr ELSE PathENOENT

Stat(n) == IF n \in exists THEN NilErr ELSE PathENOENT

Open(n) ==
    IF n \notin exists THEN PathENOENT
    ELSE IF ~tree[n].readable THEN PathEACCES
    ELSE NilErr

ReadDirErr(n) ==
    IF n \notin exists THEN PathENOENT
    ELSE IF ~tree[n].readable THEN PathEACCES
    ELSE NilErr

\* os.ReadDir: the entries present now, in filename order (node ids of one
\* directory are listed in filename order)
ReadDir(n) ==
    SelectSeq([i \in 1..Len(tree) |-> i],
              LAMBDA i : tree[i].parent = n /\ i \in exists)

FileInfo(n) == [name |-> tree[n].name, size |-> tree[n].size, kind |-> tree[n].kind]

\* ---------------------------------------------------------------- hashers

NoPair == [fatal |-> FALSE, hash |-> <<>>, path |-> <<>>]

\* fmt.Sprintf("%s-%d", basename, size); log.Fatal when os.Stat fails
nameHasher(n) ==
    IF Stat(n) # NilErr THEN [fatal |-> TRUE, hash |-> <<>>, path |-> <<>>]
    ELSE [fatal |-> FALSE,
          hash |-> Base(Path(n)) \o <<"-", ToString(tree[n].size)>>,
          path |-> Path(n)]

\* the digest of the content; log.Fatal when os.Open (or io.Copy) fails
md5ContentHasher(n) ==
    IF Open(n) # NilErr THEN [fatal |-> TRUE, hash |-> <<>>, path |-> <<>>]
    ELSE [fatal |-> FALSE, hash |-> <<"md5", tree[n].content>>, path |-> Path(n)]

hashFunc(n) ==
    IF wm.hashFunc = "nameHasher" THEN nameHasher(n) ELSE md5ContentHasher(n)

\* ---------------------------------------------------------------- searchTree

\* a skipFolder that never matches a configured name
skipFolderNever(name) == FALSE

\* the skipFolder closure
skipFolder(name) == \E i \in 1..Len(wm.skip) : name = wm.skip[i]

\* d.Info(): the root's entry carries the FileInfo of WalkDir's Lstat, an
\* entry of os.ReadDir stats the file when asked
InfoErr(n, d) == IF d = "info" THEN NilErr ELSE Lstat(n)

\* a visitor that applies the name tests to the entries of dirname only,
\* not to dirname itself
VisitorRootExempt(dirname, n, d, err) ==
    LET fi == FileInfo(n)
        isDir == fi.kind = "dir"
        out(r, sp, pr) == [ret |-> r, spawn |-> sp, print |-> pr]
    IN  IF err # NilErr /\ err # ErrNotExist THEN out(err, "none", {})
        ELSE IF d = "nil" THEN out("panic: nil pointer dereference", "none", {})
        ELSE IF InfoErr(n, d) # NilErr THEN out(InfoErr(n, d), "none", {})
        ELSE IF isDir /\ Path(n) # Path(dirname)
                /\ (HasPrefixDot(fi.name) \/ skipFolder(fi.name))
             THEN out(SkipDir, "none",
                      IF wm.verbose THEN {<<"Skipping directory", fi.name>>} ELSE {})
        ELSE IF isDir /\ Path(n) # Path(dirname)
             THEN out(SkipDir, "searchTree",
                      IF wm.verbose THEN {<<"Processing subdirectory", fi.name>>}
                      ELSE {})
        ELSE IF fi.kind = "file" /\ fi.size > 0
             THEN out(NilErr, "processFile",
                      IF wm.verbose THEN {<<"Processing file", Path(n)>>} ELSE {})
        ELSE out(NilErr, "none", {})

\* The visitor closure of searchTree(dirname), called for node n with entry
\* d ("nil", "info" or "dirent") and error err.  ret is the error returned,
\* spawn the task it registered and started, print what it wrote.
Visitor(dirname, n, d, err) ==
    LET fi == FileInfo(n)
        isDir == fi.kind = "dir"
        out(r, sp, pr) == [ret |-> r, spawn |-> sp, print |-> pr]
    IN  IF err # NilErr /\ err # ErrNotExist THEN out(err, "none", {})
        ELSE IF d = "nil" THEN out("panic: nil pointer dereference", "none", {})
        ELSE IF InfoErr(n, d) # NilErr THEN out(InfoErr(n, d), "none", {})
        ELSE IF isDir /\ (HasPrefixDot(fi.name) \/ skipFolder(fi.name))
             THEN out(SkipDir, "none",
                      IF wm.verbose THEN {<<"Skipping directory", fi.name>>} ELSE {})
        ELSE IF isDir /\ Path(n) # Path(dirname)
             THEN out(SkipDir, "searchTree",
                      IF wm.verbose THEN {<<"Processing subdirectory", fi.name>>}
                      ELSE {})
        ELSE IF fi.kind = "file" /\ fi.size > 0
             THEN out(NilErr, "processFile",
                      IF wm.verbose THEN {<<"Processing file", Path(n)>>} ELSE {})
        ELSE out(NilErr, "none", {})

\* filepath.walkDir(path, d, fn) up to its loop over the entries: the first
\* call of fn, os.ReadDir and the second call of fn that reports its error.
\* err is what walkDir returns at once (when list is FALSE); otherwise the
\* entries are iterated next.
WalkDirEntry(dirname, n, d) ==
    LET v == Visitor(dirname, n, d, NilErr)
        isDir == tree[n].kind = "dir"
        conv(e) == IF e = SkipDir /\ isDir THEN NilErr ELSE e
    IN  IF v.ret # NilErr \/ ~isDir
        THEN [err |-> conv(v.ret), list |-> FALSE, entries |-> <<>>,
              spawn |-> v.spawn, print |-> v.print]
        ELSE IF ReadDirErr(n) # NilErr
        THEN LET v2 == Visitor(dirname, n, d, ReadDirErr(n))
             IN  [err |-> conv(v2.ret), list |-> v2.ret = NilErr,
                  entries |-> <<>>, spawn |-> v.spawn,
                  print |-> v.print \cup v2.print]
        ELSE [err |-> NilErr, list |-> TRUE, entries |-> ReadDir(n),
              spawn |-> v.spawn, print |-> v.print]

\* drop the directories whose entries are all visited
RECURSIVE Unwind(_)
Unwind(fs) ==
    IF fs = <<>> THEN <<>>
    ELSE IF Head(fs) = <<>> THEN Unwind(Tail(fs))
    ELSE fs

\* ---------------------------------------------------------------- results

EmptyResults == [k \in {} |-> <<>>]

\* an append under the name of the file in place of its fingerprint
InsertByName(m, hash, file) ==
    [k \in DOMAIN m \cup {file.Stats.name} |->
        IF k = file.Stats.name
        THEN (IF k \in DOMAIN m THEN Append(m[k], file) ELSE <<file>>)
        ELSE m[k]]

\* hashes[p.hash] = append(hashes[p.hash], file)
Insert(m, hash, file) ==
    [k \in DOMAIN m \cup {hash} |->
        IF k = hash
        THEN (IF hash \in DOMAIN m THEN Append(m[hash], file) ELSE <<file>>)
        ELSE m[k]]

\* ---------------------------------------------------------------- slices

\* A slice is a window on a backing array of the heap: arr is the index of
\* the array (0 for a nil or zero-capacity slice), len the number of
\* elements seen through it.  An array has a capacity and its elements.
NilSlice == [arr |-> 0, len |-> 0]

Cap(heap, sl) == IF sl.arr = 0 THEN 0 ELSE heap[sl.arr].cap

\* the elements seen through the slice
Elems(heap, sl) ==
    IF sl.arr = 0 THEN <<>> ELSE SubSeq(heap[sl.arr].elems, 1, sl.len)

\* the capacity growslice gives a slice of File that is full
GrowCap(cap) == IF cap = 0 THEN 1 ELSE 2 * cap

\* append(sl, x): in place while the array has room, else into a new
\* array; the heap and the slice that result
GoAppend(heap, sl, x) ==
    IF sl.len < Cap(heap, sl)
    THEN [heap |-> [heap EXCEPT ![sl.arr].elems =
                       SubSeq(@, 1, sl.len) \o <<x>>
                       \o SubSeq(@, sl.len + 2, Len(@))],
          slice |-> [arr |-> sl.arr, len |-> sl.len + 1]]
    ELSE [heap |-> Append(heap, [cap |-> GrowCap(Cap(heap, sl)),
                                 elems |-> Append(Elems(heap, sl), x)]),
          slice |-> [arr |-> Len(heap) + 1, len |-> sl.len + 1]]

\* the values of a map of slices
Values(heap, m) == [k \in DOMAIN m |-> Elems(heap, m[k])]

RECURSIVE AppendAll(_, _, _)
\* a slice built from nil by one append for each element, as collectHashes
\* builds a group
AppendAll(heap, sl, files) ==
    IF files = <<>> THEN [heap |-> heap, slice |-> sl]
    ELSE LET a == GoAppend(heap, sl, Head(files))
         IN  AppendAll(a.heap, a.slice, Tail(files))

RECURSIVE Allocate(_, _, _)
\* the heap and the map of slices that hold the groups of m
Allocate(heap, built, m) ==
    IF DOMAIN built = DOMAIN m THEN [heap |-> heap, map |-> built]
    ELSE LET k == CHOOSE k \in DOMAIN m : k \notin DOMAIN built
             a == AppendAll(heap, NilSlice, m[k])
         IN  Allocate(a.heap,
                      [j \in DOMAIN built \cup {k} |->
                          IF j = k THEN a.slice ELSE built[j]],
                      m)

\* ---------------------------------------------------------------- PathFilter

pdfFiles == [f |-> "pdfFiles", size |-> 0]
sizeGreaterThan(size) == [f |-> "sizeGreaterThan", size |-> size]
alwaysFalse == [f |-> "alwaysFalse", size |-> 0]

\* strings.HasSuffix(file.Path, suffix)
HasSuffix(path, suffix) ==
    LET name == path[Len(path)] IN name[Len(name)] = suffix

\* filterFunc(file)
Call(filterFunc, file) ==
    CASE filterFunc.f = "pdfFiles" -> HasSuffix(file.Path, ".pdf")
      [] filterFunc.f = "sizeGreaterThan" -> file.Stats.size > filterFunc.size
      [] filterFunc.f = "alwaysFalse" -> FALSE

\* an include that is set by any filter that accepts the file
IncludeAny(filterFuncs, file) ==
    \E i \in 1..Len(filterFuncs) : Call(filterFuncs[i], file)

RECURSIVE Include(_, _)
\* the loop over filterFuncs: include stays true until a filter rejects
\* the file, and the loop breaks there
Include(filterFuncs, file) ==
    IF filterFuncs = <<>> THEN TRUE
    ELSE IF ~Call(Head(filterFuncs), file) THEN FALSE
    ELSE Include(Tail(filterFuncs), file)

\* the lists of filters Filter is called with
FilterLists ==
    { <<>>, <<pdfFiles>>, <<sizeGreaterThan(2)>>,
      <<pdfFiles, sizeGreaterThan(2)>>, <<sizeGreaterThan(2), pdfFiles>>,
      <<alwaysFalse>>, <<pdfFiles, alwaysFalse>> }

\* ---------------------------------------------------------------- results values

ViewFile(name, size) ==
    [Path |-> <<name>>, Stats |-> [name |-> name, size |-> size, kind |-> "file"]]

ViewFiles ==
    { ViewFile(<<"a", ".pdf">>, 3), ViewFile(<<"b", ".pdf">>, 1),
      ViewFile(<<"c", ".txt">>, 3) }

ViewKeys == { <<"h1">>, <<"h2">> }

\* lists of up to MaxGroup files, no file twice in one list
Groups ==
    UNION {{g \in [1..l -> ViewFiles] : \A i, j \in 1..l : g[i] = g[j] => i = j} :
              l \in 1..MaxGroup}

\* the results values looked at: some keys, a group under each
ResultMaps == UNION {[ks -> Groups] : ks \in SUBSET ViewKeys}

\* no call of Filter or ToSlice is under way on the value
ViewOf(m, filterFuncs) ==
    LET a == Allocate(<<>>, EmptyResults, m)
    IN  [pc |-> "idle", heap |-> a.heap, src |-> a.map, preds |-> filterFuncs,
         out |-> EmptyResults, files |-> NilSlice, todo |-> {}, cur |-> <<>>,
         idx |-> 0, before |-> m]

ViewNone == ViewOf(EmptyResults, <<>>)

\* ---------------------------------------------------------------- Init

\* the state before Walk is called on the value New(sc[2]) returned
InitWalk(sc) ==
    /\ tree = sc[1]
    /\ wm = New(sc[2])
    /\ history = [options |-> sc[2], walks |-> 1, panic |-> "none",
                  modified |-> FALSE, registered |-> {}, visited |-> {},
                  released |-> {}, listFailed |-> {}, infoMiss |-> {},
                  hashFailed |-> {}, lateRemoved |-> {}, joined |-> FALSE]
    /\ exists = {n \in DOMAIN tree : tree[n].present}
    /\ limits = 0
    /\ wgCount = 0
    /\ pairsClosed = FALSE
    /\ pc = [n \in DOMAIN tree |-> "none"]
    /\ frames = [n \in DOMAIN tree |-> <<>>]
    /\ ret = [n \in DOMAIN tree |-> NilErr]
    /\ held = [n \in DOMAIN tree |-> NoPair]
    /\ aggPc = "none"
    /\ aggCur = NoPair
    /\ hashes = EmptyResults
    /\ walkPc = "call"
    /\ walkErr = NilErr
    /\ walkResult = EmptyResults
    /\ exited = FALSE
    /\ stdout = {}

Init == view = ViewNone /\ \E sc \in Scenarios : InitWalk(sc)

\* ---------------------------------------------------------------- Walk

\* go wm.collectHashes(); wm.wg.Add(1); the call of wm.searchTree(dir)
WalkStart ==
    /\ ~exited
    /\ walkPc = "call"
    /\ walkPc' = "search"
    /\ aggPc' = "recv"
    /\ wgCount' = wgCount + 1
    /\ pc' = [pc EXCEPT ![RootNode] = "st_acquire"]
    /\ history' = [history EXCEPT !.registered = @ \cup {RootNode}]
    /\ UNCHANGED <<view, tree, wm, exists, limits, pairsClosed, frames, ret, held,
                   aggCur, hashes, walkErr, walkResult, exited, stdout>>

\* a Walk that closes the pair channel on its error return too
WalkCheckErrClose ==
    /\ ~exited
    /\ walkPc = "check"
    /\ IF walkErr # NilErr
       THEN walkPc' = "returned" /\ walkResult' = EmptyResults
            /\ pairsClosed' = TRUE
       ELSE walkPc' = "wait" /\ UNCHANGED <<walkResult, pairsClosed>>
    /\ UNCHANGED <<view, tree, wm, exists, limits, wgCount, pc, frames, ret, held,
                   aggPc, aggCur, hashes, walkErr, exited, stdout, history>>

\* if err != nil { return results{}, err }
WalkCheckErr ==
    /\ ~exited
    /\ walkPc = "check"
    /\ IF walkErr # NilErr
       THEN walkPc' = "returned" /\ walkResult' = EmptyResults
       ELSE walkPc' = "wait" /\ UNCHANGED walkResult
    /\ UNCHANGED <<view, tree, wm, exists, limits, wgCount, pairsClosed, pc, frames,
                   ret, held, aggPc, aggCur, hashes, walkErr, exited, stdout,
                   history>>

\* a Wait that does not wait
WgWaitNoWait == TRUE

\* wm.wg.Wait() returns when the counter is zero
WgWaitGuard == wgCount = 0

WalkWait ==
    /\ ~exited
    /\ walkPc = "wait"
    /\ WgWaitGuard
    /\ walkPc' = "close"
    /\ history' = [history EXCEPT !.joined = TRUE]
    /\ UNCHANGED <<view, tree, wm, exists, limits, wgCount, pairsClosed, pc, frames,
                   ret, held, aggPc, aggCur, hashes, walkErr, walkResult,
                   exited, stdout>>

\* close(wm.pairs)
WalkClose ==
    /\ ~exited
    /\ walkPc = "close"
    /\ ~pairsClosed
    /\ pairsClosed' = TRUE
    /\ walkPc' = "recv"
    /\ UNCHANGED <<view, tree, wm, exists, limits, wgCount, pc, frames, ret, held,
                   aggPc, aggCur, hashes, walkErr, walkResult, exited, stdout,
                   history>>

\* return <-wm.result, nil  meets  wm.result <- hashes  (unbuffered)
Deliver ==
    /\ ~exited
    /\ walkPc = "recv"
    /\ aggPc = "deliver"
    /\ walkResult' = hashes
    /\ walkErr' = NilErr
    /\ walkPc' = "returned"
    /\ aggPc' = "done"
    /\ UNCHANGED <<view, tree, wm, exists, limits, wgCount, pairsClosed, pc, frames,
                   ret, held, aggCur, hashes, exited, stdout, history>>

\* ---------------------------------------------------------------- the gate

\* wm.limits <- true blocks while the channel holds cap(wm.limits) values
GateFree == limits < wm.limitsCap

Acquire(t) ==
    /\ ~exited
    /\ pc[t] \in {"st_acquire", "pf_acquire"}
    /\ GateFree
    /\ limits' = limits + 1
    /\ pc' = [pc EXCEPT ![t] = IF pc[t] = "st_acquire" THEN "st_walkdir"
                                 ELSE "pf_hash"]
    /\ UNCHANGED <<view, tree, wm, exists, wgCount, pairsClosed, frames, ret, held,
                   aggPc, aggCur, hashes, walkPc, walkErr, walkResult, exited,
                   stdout, history>>

\* a task that returns without the deferred receive from wm.limits
ReleaseLeak(t) ==
    /\ ~exited
    /\ pc[t] \in {"st_release", "pf_release"}
    /\ pc' = [pc EXCEPT ![t] = IF pc[t] = "st_release" THEN "st_done"
                                 ELSE "pf_done"]
    /\ UNCHANGED <<view, tree, wm, exists, limits, wgCount, pairsClosed, frames, ret,
                   held, aggPc, aggCur, hashes, walkPc, walkErr, walkResult,
                   exited, stdout, history>>

\* a receive from wm.limits that is not deferred: a scan that ends with an
\* error returns before it
ReleaseOnSuccess(t) ==
    /\ ~exited
    /\ pc[t] \in {"st_release", "pf_release"}
    /\ limits > 0
    /\ limits' = IF ret[t] = NilErr THEN limits - 1 ELSE limits
    /\ pc' = [pc EXCEPT ![t] = IF pc[t] = "st_release" THEN "st_done"
                                 ELSE "pf_done"]
    /\ history' = [history EXCEPT
                      !.released = IF ret[t] = NilErr THEN @ \cup {t} ELSE @]
    /\ UNCHANGED <<view, tree, wm, exists, wgCount, pairsClosed, frames, ret, held,
                   aggPc, aggCur, hashes, walkPc, walkErr, walkResult, exited,
                   stdout>>

\* the deferred <-wm.limits
Release(t) ==
    /\ ~exited
    /\ pc[t] \in {"st_release", "pf_release"}
    /\ limits > 0
    /\ limits' = limits - 1
    /\ pc' = [pc EXCEPT ![t] = IF pc[t] = "st_release" THEN "st_done"
                                 ELSE "pf_done"]
    /\ history' = [history EXCEPT !.released = @ \cup {t}]
    /\ UNCHANGED <<view, tree, wm, exists, wgCount, pairsClosed, frames, ret, held,
                   aggPc, aggCur, hashes, walkPc, walkErr, walkResult, exited,
                   stdout>>

\* the deferred wm.wg.Done(); the root searchTree then returns into Walk,
\* the error of every other searchTree is dropped by the go statement
Done(t) ==
    /\ ~exited
    /\ pc[t] \in {"st_done", "pf_done"}
    /\ wgCount' = wgCount - 1
    /\ pc' = [pc EXCEPT ![t] = "done"]
    /\ IF t = RootNode
       THEN walkPc' = "check" /\ walkErr' = ret[t]
       ELSE UNCHANGED <<walkPc, walkErr>>
    /\ UNCHANGED <<view, tree, wm, exists, limits, pairsClosed, frames, ret, held,
                   aggPc, aggCur, hashes, walkResult, exited, stdout, history>>

\* ---------------------------------------------------------------- searchTree steps

\* what filepath.WalkDir returns for the error of its root walkDir
TopErr(e) == IF e = SkipDir THEN NilErr ELSE e

\* wm.wg.Add(1) and the go statement of the visitor
SpawnPc(kind) == IF kind = "searchTree" THEN "st_acquire" ELSE "pf_acquire"

\* the listing of n failed, with an error other than not-found
ListingFailed(dirname, n, d) ==
    /\ tree[n].kind = "dir"
    /\ Visitor(dirname, n, d, NilErr).ret = NilErr
    /\ ReadDirErr(n) \notin {NilErr, PathENOENT}

Observe(t, n, d, w) ==
    [history EXCEPT
        !.registered = IF w.spawn # "none" THEN @ \cup {n} ELSE @,
        !.visited = @ \cup {<<t, n>>},
        !.infoMiss = IF d = "dirent" /\ InfoErr(n, d) = PathENOENT
                     THEN @ \cup {<<t, n>>} ELSE @,
        !.listFailed = IF ListingFailed(t, n, d) THEN @ \cup {n} ELSE @]

\* filepath.WalkDir(dirname, visitor): os.Lstat of the root, then walkDir of
\* the root up to its loop
WalkRoot(t) ==
    /\ ~exited
    /\ pc[t] = "st_walkdir"
    /\ IF Lstat(t) # NilErr
       THEN /\ ret' = [ret EXCEPT ![t] = TopErr(Visitor(t, t, "nil", Lstat(t)).ret)]
            /\ pc' = [pc EXCEPT ![t] = "st_release"]
            /\ UNCHANGED <<frames, wgCount, stdout, history>>
       ELSE LET w == WalkDirEntry(t, t, "info")
                next == IF w.list THEN Unwind(<<w.entries>>) ELSE <<>>
            IN  /\ frames' = [frames EXCEPT ![t] = next]
                /\ ret' = [ret EXCEPT ![t] = TopErr(w.err)]
                /\ pc' = [pc EXCEPT ![t] = IF next = <<>> THEN "st_release"
                                             ELSE "st_walk"]
                /\ stdout' = stdout \cup w.print
                /\ history' = Observe(t, t, "info", w)
                /\ UNCHANGED wgCount
    /\ UNCHANGED <<view, tree, wm, exists, limits, pairsClosed, held, aggPc, aggCur,
                   hashes, walkPc, walkErr, walkResult, exited>>

\* one turn of walkDir's loop: walkDir of the next entry
WalkStep(t) ==
    /\ ~exited
    /\ pc[t] = "st_walk"
    /\ LET top == Head(frames[t])
           n == Head(top)
           w == WalkDirEntry(t, n, "dirent")
           next == IF w.err = SkipDir THEN Unwind(Tail(frames[t]))
                   ELSE IF w.err # NilErr THEN <<>>
                   ELSE Unwind((IF w.list THEN <<w.entries>> ELSE <<>>)
                               \o <<Tail(top)>> \o Tail(frames[t]))
       IN  /\ frames' = [frames EXCEPT ![t] = next]
           /\ ret' = [ret EXCEPT ![t] = TopErr(w.err)]
           /\ pc' = [n2 \in DOMAIN pc |->
                        IF n2 = t THEN (IF next = <<>> THEN "st_release" ELSE "st_walk")
                        ELSE IF n2 = n /\ w.spawn # "none" THEN SpawnPc(w.spawn)
                        ELSE pc[n2]]
           /\ wgCount' = IF w.spawn # "none" THEN wgCount + 1 ELSE wgCount
           /\ stdout' = stdout \cup w.print
           /\ history' = Observe(t, n, "dirent", w)
    /\ UNCHANGED <<view, tree, wm, exists, limits, pairsClosed, held, aggPc, aggCur,
                   hashes, walkPc, walkErr, walkResult, exited>>

\* ---------------------------------------------------------------- processFile steps

\* wm.hashFunc(path): the pair, or log.Fatal ends the process
Hash(t) ==
    /\ ~exited
    /\ pc[t] = "pf_hash"
    /\ LET p == hashFunc(t)
       IN  IF p.fatal
           THEN /\ exited' = TRUE
                /\ history' = [history EXCEPT !.hashFailed = @ \cup {t}]
                /\ UNCHANGED <<pc, held>>
           ELSE /\ held' = [held EXCEPT ![t] = p]
                /\ pc' = [pc EXCEPT ![t] = "pf_send"]
                /\ UNCHANGED <<exited, history>>
    /\ UNCHANGED <<view, tree, wm, exists, limits, wgCount, pairsClosed, frames, ret,
                   aggPc, aggCur, hashes, walkPc, walkErr, walkResult, stdout>>

\* wm.pairs <- pair  meets  the receive of  for p := range wm.pairs
Send(t) ==
    /\ ~exited
    /\ pc[t] = "pf_send"
    /\ aggPc = "recv"
    /\ ~pairsClosed
    /\ aggCur' = held[t]
    /\ aggPc' = "stat"
    /\ pc' = [pc EXCEPT ![t] = "pf_release"]
    /\ UNCHANGED <<view, tree, wm, exists, limits, wgCount, pairsClosed, frames, ret,
                   held, hashes, walkPc, walkErr, walkResult, exited, stdout,
                   history>>

\* ---------------------------------------------------------------- collectHashes

\* the node a path names
NodeOf(path) == CHOOSE n \in DOMAIN tree : Path(n) = path

\* os.Stat(p.path) and the append, or the drop of a file that is gone
AggStat ==
    /\ ~exited
    /\ aggPc = "stat"
    /\ LET n == NodeOf(aggCur.path)
       IN  hashes' = IF Stat(n) = NilErr
                     THEN Insert(hashes, aggCur.hash,
                                 [Path |-> aggCur.path, Stats |-> FileInfo(n)])
                     ELSE hashes
    /\ aggPc' = "recv"
    /\ UNCHANGED <<view, tree, wm, exists, limits, wgCount, pairsClosed, pc, frames,
                   ret, held, aggCur, walkPc, walkErr, walkResult, exited,
                   stdout, history>>

\* the range loop ends when wm.pairs is closed
AggClosed ==
    /\ ~exited
    /\ aggPc = "recv"
    /\ pairsClosed
    /\ aggPc' = "deliver"
    /\ UNCHANGED <<view, tree, wm, exists, limits, wgCount, pairsClosed, pc, frames,
                   ret, held, aggCur, hashes, walkPc, walkErr, walkResult,
                   exited, stdout, history>>

\* ---------------------------------------------------------------- environment

\* the pair of f is yet to be made, sent or looked at by collectHashes
BeforeRestat(f) ==
    \/ pc[f] \in {"pf_acquire", "pf_hash", "pf_send"}
    \/ aggPc = "stat" /\ aggCur.path = Path(f)

\* another process removes a file while the walk runs
Remove(f) ==
    /\ ~exited
    /\ walkPc \notin {"call", "returned"}
    /\ tree[f].volatile
    /\ f \in exists
    /\ exists' = exists \ {f}
    /\ history' = [history EXCEPT
                      !.modified = TRUE,
                      !.lateRemoved = IF BeforeRestat(f) THEN @ \cup {f} ELSE @]
    /\ UNCHANGED <<view, tree, wm, limits, wgCount, pairsClosed, pc, frames, ret,
                   held, aggPc, aggCur, hashes, walkPc, walkErr, walkResult,
                   exited, stdout>>

\* ---------------------------------------------------------------- specification

Step ==
    \/ WalkStart
    \/ WalkCheckErr
    \/ WalkWait
    \/ WalkClose
    \/ Deliver
    \/ AggStat
    \/ AggClosed
    \/ \E t \in DOMAIN tree : Acquire(t)
    \/ \E t \in DOMAIN tree : Release(t)
    \/ \E t \in DOMAIN tree : Done(t)
    \/ \E t \in DOMAIN tree : WalkRoot(t)
    \/ \E t \in DOMAIN tree : WalkStep(t)
    \/ \E t \in DOMAIN tree : Hash(t)
    \/ \E t \in DOMAIN tree : Send(t)

Next == Step \/ \E f \in DOMAIN tree : Remove(f)

Spec == Init /\ [][Next]_vars

\* ---------------------------------------------------------------- a second Walk

\* a Walk that makes its channels anew
WalkAgainFresh ==
    /\ ~exited
    /\ walkPc = "returned" /\ walkErr = NilErr
    /\ history.walks = 1
    /\ walkPc' = "search"
    /\ aggPc' = "recv"
    /\ aggCur' = NoPair
    /\ hashes' = EmptyResults
    /\ pairsClosed' = FALSE
    /\ wgCount' = wgCount + 1
    /\ pc' = [n \in DOMAIN tree |-> IF n = RootNode THEN "st_acquire" ELSE "none"]
    /\ frames' = [n \in DOMAIN tree |-> <<>>]
    /\ ret' = [n \in DOMAIN tree |-> NilErr]
    /\ held' = [n \in DOMAIN tree |-> NoPair]
    /\ history' = [history EXCEPT !.walks = 2, !.registered = {RootNode},
                                  !.visited = {}, !.released = {},
                                  !.joined = FALSE]
    /\ UNCHANGED <<view, tree, wm, exists, limits, walkErr, walkResult, exited, stdout>>

\* Walk called again on the Walkman value of a Walk that returned a nil
\* error: a new collectHashes goroutine with a map of its own, wg.Add(1) and
\* the root searchTree, on the channels New made
WalkAgain ==
    /\ ~exited
    /\ walkPc = "returned" /\ walkErr = NilErr
    /\ history.walks = 1
    /\ walkPc' = "search"
    /\ aggPc' = "recv"
    /\ aggCur' = NoPair
    /\ hashes' = EmptyResults
    /\ wgCount' = wgCount + 1
    /\ pc' = [n \in DOMAIN tree |-> IF n = RootNode THEN "st_acquire" ELSE "none"]
    /\ frames' = [n \in DOMAIN tree |-> <<>>]
    /\ ret' = [n \in DOMAIN tree |-> NilErr]
    /\ held' = [n \in DOMAIN tree |-> NoPair]
    /\ history' = [history EXCEPT !.walks = 2, !.registered = {RootNode},
                                  !.visited = {}, !.released = {},
                                  !.joined = FALSE]
    /\ UNCHANGED <<view, tree, wm, exists, limits, pairsClosed, walkErr, walkResult,
                   exited, stdout>>

\* wm.pairs <- pair on the closed channel panics
SendClosed(t) ==
    /\ ~exited
    /\ pc[t] = "pf_send"
    /\ pairsClosed
    /\ exited' = TRUE
    /\ history' = [history EXCEPT !.panic = "send on closed channel"]
    /\ UNCHANGED <<view, tree, wm, exists, limits, wgCount, pairsClosed, pc, frames,
                   ret, held, aggPc, aggCur, hashes, walkPc, walkErr,
                   walkResult, stdout>>

\* close(wm.pairs) on the closed channel panics
CloseClosed ==
    /\ ~exited
    /\ walkPc = "close"
    /\ pairsClosed
    /\ exited' = TRUE
    /\ history' = [history EXCEPT !.panic = "close of closed channel"]
    /\ UNCHANGED <<view, tree, wm, exists, limits, wgCount, pairsClosed, pc, frames,
                   ret, held, aggPc, aggCur, hashes, walkPc, walkErr,
                   walkResult, stdout>>

ReuseNext ==
    \/ Next
    \/ WalkAgain
    \/ \E t \in DOMAIN tree : SendClosed(t)
    \/ CloseClosed

\* one Walk, and a second one on the same value after a successful first
ReuseSpec == Init /\ [][ReuseNext]_vars

\* the Go scheduler runs every goroutine that can run; the environment owes
\* nothing
FairSpec == Spec /\ WF_vars(Step)

\* ---------------------------------------------------------------- results view

RECURSIVE ToSliceIn(_, _)
\* ToSlice, with the keys of the map ranged over in the given order
ToSliceIn(m, order) ==
    IF order = <<>> THEN <<>>
    ELSE m[Head(order)] \o ToSliceIn(m, Tail(order))

\* the orders in which a range over the map may yield its keys
KeyOrders(m) ==
    LET k == Cardinality(DOMAIN m)
    IN  {o \in [1..k -> DOMAIN m] : \A i, j \in 1..k : o[i] = o[j] => i = j}

\* ---------------------------------------------------------------- Filter, ToSlice

walkVars ==
    <<tree, wm, exists, limits, wgCount, pairsClosed, pc, frames, ret, held,
      aggPc, aggCur, hashes, walkPc, walkErr, walkResult, exited, stdout,
      history>>

\* results := make(results)
FilterCall ==
    /\ view.pc = "idle"
    /\ view' = [view EXCEPT !.pc = "filter", !.out = EmptyResults,
                            !.todo = DOMAIN view.src]
    /\ UNCHANGED walkVars

\* for hash, files := range hashes: a key not yet yielded, in no fixed order
FilterRange ==
    /\ view.pc = "filter"
    /\ view.cur = <<>>
    /\ \E hash \in view.todo :
          view' = [view EXCEPT !.cur = hash, !.idx = 1, !.todo = @ \ {hash}]
    /\ UNCHANGED walkVars

\* a first append that reuses the array of files: append(files[:0], file)
FilterTargetInPlace(v, hash) ==
    IF hash \in DOMAIN v.out THEN v.out[hash]
    ELSE [arr |-> v.src[hash].arr, len |-> 0]

\* results[hash], nil while the key is not in the new map
FilterTarget(v, hash) ==
    IF hash \in DOMAIN v.out THEN v.out[hash] ELSE NilSlice

\* one turn of the loop over files: the filters, then
\* results[hash] = append(results[hash], file)
FilterFile ==
    /\ view.pc = "filter"
    /\ view.cur # <<>>
    /\ LET hash == view.cur
           files == view.src[hash]
           file == view.heap[files.arr].elems[view.idx]
           a == GoAppend(view.heap, FilterTarget(view, hash), file)
           v == IF Include(view.preds, file)
                THEN [view EXCEPT
                         !.heap = a.heap,
                         !.out = [k \in DOMAIN view.out \cup {hash} |->
                                     IF k = hash THEN a.slice ELSE view.out[k]]]
                ELSE view
       IN  view' = IF view.idx = files.len
                   THEN [v EXCEPT !.cur = <<>>, !.idx = 0]
                   ELSE [v EXCEPT !.idx = view.idx + 1]
    /\ UNCHANGED walkVars

\* return results
FilterReturn ==
    /\ view.pc = "filter"
    /\ view.cur = <<>>
    /\ view.todo = {}
    /\ view' = [view EXCEPT !.pc = "filtered"]
    /\ UNCHANGED walkVars

\* files := []File{}
ToSliceCall ==
    /\ view.pc = "idle"
    /\ view' = [view EXCEPT !.pc = "toslice", !.files = NilSlice,
                            !.todo = DOMAIN view.src]
    /\ UNCHANGED walkVars

\* for _, fl := range hashes
ToSliceRange ==
    /\ view.pc = "toslice"
    /\ view.cur = <<>>
    /\ \E hash \in view.todo :
          view' = [view EXCEPT !.cur = hash, !.idx = 1, !.todo = @ \ {hash}]
    /\ UNCHANGED walkVars

\* a File built with its Path alone
ToSliceElemPathOnly(f) ==
    [Path |-> f.Path, Stats |-> [name |-> <<>>, size |-> 0, kind |-> ""]]

\* File{Path: f.Path, Stats: f.Stats}
ToSliceElem(f) == [Path |-> f.Path, Stats |-> f.Stats]

\* files = append(files, File{...}) for the next f of fl
ToSliceFile ==
    /\ view.pc = "toslice"
    /\ view.cur # <<>>
    /\ LET fl == view.src[view.cur]
           f == view.heap[fl.arr].elems[view.idx]
           a == GoAppend(view.heap, view.files, ToSliceElem(f))
           v == [view EXCEPT !.heap = a.heap, !.files = a.slice]
       IN  view' = IF view.idx = fl.len
                   THEN [v EXCEPT !.cur = <<>>, !.idx = 0]
                   ELSE [v EXCEPT !.idx = view.idx + 1]
    /\ UNCHANGED walkVars

\* return files
ToSliceReturn ==
    /\ view.pc = "toslice"
    /\ view.cur = <<>>
    /\ view.todo = {}
    /\ view' = [view EXCEPT !.pc = "flattened"]
    /\ UNCHANGED walkVars

ViewInit ==
    /\ InitWalk(<<TreeRootMissing, <<>> >>)
    /\ \E m \in ResultMaps : \E filterFuncs \in FilterLists :
          view = ViewOf(m, filterFuncs)

ViewNext ==
    \/ FilterCall
    \/ FilterRange
    \/ FilterFile
    \/ FilterReturn
    \/ ToSliceCall
    \/ ToSliceRange
    \/ ToSliceFile
    \/ ToSliceReturn

\* one call of Filter or of ToSlice on a results value
ViewSpec == ViewInit /\ [][ViewNext]_vars

\* ---------------------------------------------------------------- claims

\* tasks that hold a slot of the gate
Holders ==
    {t \in DOMAIN tree :
        pc[t] \in {"st_walkdir", "st_walk", "st_release",
                   "pf_hash", "pf_send", "pf_release"}}

Running(t) == pc[t] \notin {"none", "done"}

\* a directory the visitor prunes by its name
Pruned(n) ==
    /\ tree[n].kind = "dir"
    /\ (HasPrefixDot(tree[n].name) \/ slice_contains(wm.skip, tree[n].name))

RECURSIVE InPruned(_)
\* n is a pruned directory or lies below one
InPruned(n) ==
    Pruned(n) \/ (tree[n].parent # 0 /\ InPruned(tree[n].parent))

\* number of entries of a slice with the path of n
CountIn(slice, n) == Cardinality({i \in 1..Len(slice) : slice[i].Path = Path(n)})

ReturnedOk == walkPc = "returned" /\ walkErr = NilErr

\* C1: at every point of a Walk the number of tasks that hold the gate is at
\* most the configured worker count N, for every N > 0.
C1_HoldersAtMostWorkers ==
    wm.workers > 0 => Cardinality(Holders) <= wm.workers

\* C2: when Walk returns successfully on a tree that was not modified, the
\* flattened result holds every regular non-empty file of a non-pruned
\* directory exactly once and nothing for any other node.
C2_EachFileExactlyOnce ==
    (ReturnedOk /\ ~history.modified) =>
        \A order \in KeyOrders(walkResult) : \A n \in DOMAIN tree :
            CountIn(ToSliceIn(walkResult, order), n)
                = IF tree[n].kind = "file" /\ tree[n].size > 0 /\ ~InPruned(n)
                  THEN 1 ELSE 0

\* C3: the join returns only after every registered task called done, the
\* pair channel is closed only after the join returned, collectHashes
\* finalizes and delivers only after it saw the closure, and the counter
\* is never negative and never zero while a registered task still runs.
C3_JoinThenCloseThenFinalize ==
    /\ wgCount >= 0
    /\ (wgCount = 0 => \A t \in DOMAIN tree : ~Running(t))
    /\ (history.joined => \A t \in history.registered : pc[t] = "done")
    /\ (pairsClosed => history.joined)
    /\ (aggPc \in {"deliver", "done"} => pairsClosed)
    /\ (ReturnedOk => aggPc = "done")

C3_Witness ==
    /\ ReturnedOk
    /\ aggPc = "done"
    /\ \E t \in history.registered : tree[t].parent \notin {0, RootNode}
    /\ DOMAIN walkResult # {}

\* C4: under fair scheduling every Walk call returns to its caller, unless
\* the fingerprint function did not return (log.Fatal ended the process).
C4_WalkReturns == <>(walkPc = "returned" \/ exited)

C4_Witness ==
    /\ ReturnedOk
    /\ Cardinality(history.registered) > 2 * wm.limitsCap

\* C5: if the listing of any directory fails with an error other than
\* not-found, Walk returns a non-nil error.
C5_ListingErrorFailsWalk ==
    (walkPc = "returned" /\ history.listFailed # {}) => walkErr # NilErr

\* C6: if the fingerprint function cannot open or read a file, the Walk call
\* ends by returning an error and no ResultMap: the process lives on and
\* what Walk returns is an error.
C6_HashFailureReturnsError ==
    history.hashFailed # {} =>
        /\ ~exited
        /\ (walkPc = "returned" => walkErr # NilErr /\ DOMAIN walkResult = {})

\* C7: a file removed after a scan discovered it, before its fingerprint
\* task ran or before collectHashes looked at it, is dropped: Walk still
\* returns the map of the remaining files with a nil error.
C7_LateRemovalIsDropped ==
    history.lateRemoved # {} =>
        /\ ~exited
        /\ (walkPc = "returned" =>
               /\ walkErr = NilErr
               /\ \A order \in KeyOrders(walkResult) :
                      \A f \in history.lateRemoved :
                         CountIn(ToSliceIn(walkResult, order), f) = 0)

\* C8: a not-found error met when the info of a listed entry is read does
\* not fail the walk: the scan goes on and returns no error for it.
C8_InfoNotFoundTolerated ==
    \A x \in history.infoMiss :
        /\ ret[x[1]] = NilErr
        /\ (x[1] = RootNode /\ walkPc = "returned" => walkErr = NilErr)

\* C9: with an invalid worker count, or a root that does not exist or cannot
\* be listed, Walk returns an error before any directory or file task is
\* registered.
C9_ConfigErrorBeforeAnyTask ==
    (wm.workers <= 0 \/ RootNode \notin exists \/ ~tree[RootNode].readable) =>
        /\ history.registered \subseteq {RootNode}
        /\ (walkPc = "returned" => walkErr # NilErr)

SkipRequested ==
    UNION {{history.options[i].dirs[j] : j \in 1..Len(history.options[i].dirs)} :
              i \in 1..Len(history.options)}

RECURSIVE Excluded(_)
\* n is, or lies below, a hidden directory or one the caller asked to skip
Excluded(n) ==
    \/ /\ tree[n].kind = "dir"
       /\ (HasPrefixDot(tree[n].name) \/ tree[n].name \in SkipRequested)
    \/ (tree[n].parent # 0 /\ Excluded(tree[n].parent))

\* some group of the map holds an entry with the path of n
InResult(m, n) ==
    \E k \in DOMAIN m : \E i \in 1..Len(m[k]) : m[k][i].Path = Path(n)

\* C11: with NoDefaultSkip, whatever its place among the options, a
\* non-hidden directory a scan comes to is pruned exactly when SkipDirs was
\* handed its name, and a walk that listed every directory returns every
\* non-empty regular file that lies under no hidden or requested directory.
C11_PrunedNamesAreRequested ==
    wm.noDefaultSkip =>
        /\ \A x \in history.visited :
              (/\ x[2] # RootNode
               /\ tree[x[2]].kind = "dir"
               /\ ~HasPrefixDot(tree[x[2]].name))
              => (x[2] \in history.registered
                    <=> tree[x[2]].name \notin SkipRequested)
        /\ (ReturnedOk /\ ~history.modified /\ history.listFailed = {}) =>
              \A n \in DOMAIN tree :
                 (tree[n].kind = "file" /\ tree[n].size > 0 /\ ~Excluded(n))
                 => InResult(walkResult, n)

\* C12: every File of the map being built and of the map Walk returned lies
\* under the fingerprint its task got from the hash function, so files lie
\* in one group exactly when their fingerprints are equal.
C12_GroupedByFingerprint ==
    \A m \in {hashes, walkResult} : \A k \in DOMAIN m :
        /\ m[k] # <<>>
        /\ \A i \in 1..Len(m[k]) :
              /\ held[NodeOf(m[k][i].Path)].hash = k
              /\ k = IF wm.hashFunc = "nameHasher"
                     THEN tree[NodeOf(m[k][i].Path)].name
                          \o <<"-", ToString(tree[NodeOf(m[k][i].Path)].size)>>
                     ELSE <<"md5", tree[NodeOf(m[k][i].Path)].content>>
        /\ \A k2 \in DOMAIN m : \A i \in 1..Len(m[k]) : \A j \in 1..Len(m[k2]) :
              (held[NodeOf(m[k][i].Path)].hash = held[NodeOf(m[k2][j].Path)].hash)
              <=> k = k2

\* two files with equal content and one with other content, fingerprinted
\* by content, have arrived in some order
C12_Witness ==
    /\ ReturnedOk
    /\ wm.hashFunc = "md5ContentHasher"
    /\ \E k \in DOMAIN walkResult : Len(walkResult[k]) = 2
    /\ Cardinality(DOMAIN walkResult) >= 2

RECURSIVE Reachable(_)
\* every directory above n is there, can be listed and is not pruned
Reachable(n) ==
    \/ n = RootNode
    \/ /\ tree[n].parent \in exists
       /\ tree[tree[n].parent].readable
       /\ ~Pruned(tree[n].parent)
       /\ Reachable(tree[n].parent)

\* C16: a scan task calls the visitor only for its own directory and the
\* direct entries of it, and when Walk has returned successfully every
\* directory that is reachable from the root and not pruned has been
\* scanned by the one task spawned for it.
C16_EachDirectoryScannedOnce ==
    /\ \A x \in history.visited : x[2] = x[1] \/ tree[x[2]].parent = x[1]
    /\ ReturnedOk =>
          \A n \in exists :
             (tree[n].kind = "dir" /\ ~Pruned(n) /\ Reachable(n)) =>
                /\ n \in history.registered
                /\ pc[n] = "done"
                /\ <<n, n>> \in history.visited

\* tasks that are past their acquire and have not signalled done
Working ==
    {t \in DOMAIN tree :
        pc[t] \in {"st_walkdir", "st_walk", "pf_hash", "pf_send"}}

\* C17: the gate holds one value for each task between its acquire and its
\* release; a task works only while it holds a slot, has released it when
\* it signals done, on the error paths too, and no slot is held when Walk
\* has returned successfully.
C17_SlotHeldWhileWorking ==
    /\ limits = Cardinality(Holders)
    /\ Working \subseteq Holders
    /\ \A t \in DOMAIN tree :
          /\ pc[t] \in {"st_done", "pf_done", "done"} =>
                t \in history.released /\ t \notin Holders
          /\ (t \in history.released /\ ret[t] # NilErr) => t \notin Holders
    /\ Cardinality(history.released) + limits
          = Cardinality({t \in DOMAIN tree :
                           pc[t] \notin {"none", "st_acquire", "pf_acquire"}})
    /\ ReturnedOk => limits = 0

\* a walk returned successfully in which a scan ended with an error and a
\* file task ran, all slots given back
C17_Witness ==
    /\ ReturnedOk
    /\ limits = 0
    /\ \E t \in history.released : ret[t] # NilErr
    /\ \E t \in history.released : tree[t].kind = "file"
    /\ Cardinality(history.released) >= 4

ReturnedErr == walkPc = "returned" /\ walkErr # NilErr

\* no task is left and collectHashes has taken in every pair that was sent
Quiet ==
    /\ \A t \in DOMAIN tree : ~Running(t)
    /\ aggPc = "recv"
    /\ \A t \in DOMAIN tree :
          (tree[t].kind = "file" /\ pc[t] = "done" /\ t \in exists)
          => InResult(hashes, t)

\* C18: when Walk has returned the error of the root scan, it returned the
\* empty map, it neither joined nor closed the pair channel, and
\* collectHashes never gets to deliver or end; the tasks spawned before
\* the error go on and run to their end with their pairs taken in.
C18_RootErrorLeavesTasksRunning ==
    /\ [](ReturnedErr =>
            /\ walkResult = EmptyResults
            /\ walkErr = ret[RootNode]
            /\ ~history.joined
            /\ ~pairsClosed
            /\ aggPc \in {"recv", "stat"})
    /\ (ReturnedErr ~> (Quiet \/ exited))

\* Walk has returned the error while a file task it spawned is still to
\* take a slot
C18_Witness ==
    /\ ReturnedErr
    /\ \E t \in DOMAIN tree : pc[t] = "pf_acquire"
    /\ hashes = EmptyResults

C19_SecondWalkFindsChannelClosed ==
    /\ (ReturnedOk \/ history.walks = 2) => pairsClosed
    /\ history.walks = 2 =>
          /\ hashes = EmptyResults
          /\ aggCur = NoPair
          /\ aggPc \in {"recv", "deliver"}
          /\ \A t \in DOMAIN tree :
                /\ pc[t] \notin {"pf_release", "pf_done"}
                /\ tree[t].kind = "file" => pc[t] # "done"
          /\ (history.panic = "send on closed channel"
                => \E t \in DOMAIN tree : pc[t] = "pf_send")
          /\ ~ReturnedOk

\* a file task of the second Walk panicked at its send while collectHashes
\* stands at the delivery of its empty map
C19_Witness ==
    /\ history.walks = 2
    /\ exited
    /\ history.panic = "send on closed channel"
    /\ aggPc = "deliver"
    /\ DOMAIN walkResult # {}

\* the places <<key, index>> of a results value
Places(m) == UNION {{<<k, i>> : i \in 1..Len(m[k])} : k \in DOMAIN m}

\* C13: all through a call of Filter and after it has returned, the map it
\* was called on has the keys, and under each key the Files in the order,
\* that it had before the call.
C13_FilterLeavesSourceUnchanged ==
    view.pc \in {"filter", "filtered"} =>
        Values(view.heap, view.src) = view.before

\* Filter returned a group that holds only the second File of a group of
\* the source
C13_Witness ==
    /\ view.pc = "filtered"
    /\ \E k \in DOMAIN view.out :
          /\ Len(view.before[k]) >= 2
          /\ Elems(view.heap, view.out[k]) = <<view.before[k][2]>>

\* C14: the map Filter returns holds under each key, in their order, the
\* Files of the source that every filter accepts, and no key that would
\* hold none; so with no filter its values are those of the source, and
\* with a filter that accepts nothing it is the empty map.
C14_FilterKeepsWhatAllAccept ==
    view.pc = "filtered" =>
        LET accepted(file) ==
                \A i \in 1..Len(view.preds) : Call(view.preds[i], file)
            kept == [k \in DOMAIN view.before |->
                        SelectSeq(view.before[k], accepted)]
            result == Values(view.heap, view.out)
        IN  /\ DOMAIN result = {k \in DOMAIN kept : kept[k] # <<>>}
            /\ \A k \in DOMAIN result : result[k] = kept[k]
            /\ (view.preds = <<>> => result = view.before)
            /\ ((\E i \in 1..Len(view.preds) : view.preds[i] = alwaysFalse)
                  => result = EmptyResults)

\* two filters were applied: one group lost a File that only the second
\* filter rejects and kept another, one group was left with no File
C14_Witness ==
    /\ view.pc = "filtered"
    /\ Len(view.preds) = 2
    /\ DOMAIN view.out # {}
    /\ DOMAIN view.out # DOMAIN view.before
    /\ \E k \in DOMAIN view.out :
          /\ Len(Elems(view.heap, view.out[k])) < Len(view.before[k])
          /\ \E i \in 1..Len(view.before[k]) :
                /\ Call(view.preds[1], view.before[k][i])
                /\ ~Call(view.preds[2], view.before[k][i])

\* C15: the slice ToSlice returns is the groups of the map one after the
\* other, each whole and in its own order, in some order of the keys: as
\* long as the groups together, with each File as often as the groups
\* hold it.
C15_ToSliceConcatenatesGroups ==
    view.pc = "flattened" =>
        LET m == Values(view.heap, view.src)
            slice == Elems(view.heap, view.files)
        IN  /\ m = view.before
            /\ Len(slice) = Cardinality(Places(m))
            /\ \A file \in ViewFiles :
                  Cardinality({i \in 1..Len(slice) : slice[i] = file})
                    = Cardinality({x \in Places(m) : m[x[1]][x[2]] = file})
            /\ \A i \in 1..Len(slice) : slice[i] \in ViewFiles
            /\ \E order \in KeyOrders(m) : slice = ToSliceIn(m, order)

\* a map of two groups, one of them of two Files, was flattened
C15_Witness ==
    /\ view.pc = "flattened"
    /\ Cardinality(DOMAIN view.src) = 2
    /\ \E k \in DOMAIN view.src : view.src[k].len >= 2
    /\ view.files.len >= 3

====
